---- MODULE Spec2Model ----
(***************************************************************************)
(* Great-arc geometry of sunpy.coordinates.great_arc, the SWAP client of   *)
(* sunpy.net.dataretriever.sources.swap and diff_rot of                    *)
(* sunpy.physics.differential_rotation.                                    *)
(*                                                                         *)
(* The program works on IEEE doubles.  The Cartesian triples the model     *)
(* feeds it have small integer coordinates, on which subtraction, the      *)
(* cross product and the dot product are exact in doubles; they are        *)
(* integers here.  Every other floating-point value (a norm, a quotient,   *)
(* an angle, a cosine or sine, a sample coordinate) is a fixed-point       *)
(* number: the integer x stands for x / Scale.  The not-a-number a double  *)
(* division 0/0 yields is the value NaN, which every arithmetic operation  *)
(* propagates and which is close to nothing, itself included.              *)
(***************************************************************************)
EXTENDS Integers, Sequences, FiniteSets, TLC

(***************************************************************************)
(* Fixed-point arithmetic                                                  *)
(***************************************************************************)
Scale == 10 * 10 * 10

\* numpy.nan: outside the range of every finite value of the model
NaN == -(Scale * Scale * Scale)

IsNaN(x) == x = NaN

Abs(x) == IF x < 0 THEN -x ELSE x

\* a / b rounded to the nearest integer, b > 0
RDiv(a, b) == (2 * a + b) \div (2 * b)

\* double addition
FAdd(a, b) == IF IsNaN(a) \/ IsNaN(b) THEN NaN ELSE a + b

\* double multiplication of two fixed-point numbers
FMul(a, b) == IF IsNaN(a) \/ IsNaN(b) THEN NaN ELSE RDiv(a * b, Scale)

\* double division of two fixed-point numbers; numpy gives nan for 0/0 and
\* a signed infinity for x/0 with a warning, never an exception.  The model
\* only divides by a norm, and a zero norm only ever divides a zero vector.
FDiv(a, b) ==
    IF IsNaN(a) \/ IsNaN(b) \/ b = 0 THEN NaN
    ELSE IF b > 0 THEN RDiv(a * Scale, b) ELSE -RDiv(a * Scale, -b)

RECURSIVE SqrtIter(_, _)
SqrtIter(n, x) ==
    LET y == (x + n \div x) \div 2
    IN  IF y >= x THEN x ELSE SqrtIter(n, y)

\* floor of the square root of n >= 0
ISqrt(n) == IF n = 0 THEN 0 ELSE SqrtIter(n, n)

\* the next decimal digits of a square root, by the long-hand method: p is
\* the root so far, rem what is left of the radicand, s the scale still to go
RECURSIVE SqrtDigits(_, _, _)
SqrtDigits(p, rem, s) ==
    IF s = 1 THEN <<p, rem>>
    ELSE LET r100 == rem * 100
             d    == CHOOSE x \in 0..9 :
                        /\ (20 * p + x) * x <= r100
                        /\ (x = 9 \/ (20 * p + x + 1) * (x + 1) > r100)
         IN  SqrtDigits(10 * p + d, r100 - (20 * p + d) * d, s \div 10)

\* square root of the integer n as a fixed-point number, rounded to nearest
FSqrtInt(n) ==
    LET p0 == ISqrt(n)
        pr == SqrtDigits(p0, n - p0 * p0, Scale)
    IN  IF pr[2] > pr[1] THEN pr[1] + 1 ELSE pr[1]

\* math.pi
PI == RDiv(314159 * Scale, 100000)

HalfPI == RDiv(314159 * Scale, 200000)

\* cos(x) and sin(x) for 0 <= x <= pi/2 by their Taylor series, one term per
\* step: term_k = term_(k-1) * x^2 / ((k-1) k)
RECURSIVE Series(_, _, _, _)
Series(x2, term, k, sign) ==
    IF term = 0 THEN 0
    ELSE sign * term + Series(x2, RDiv(term * x2, Scale * (k + 1) * (k + 2)), k + 2, -sign)

CosQ(x) == Series(RDiv(x * x, Scale), Scale, 0, 1)

SinQ(x) == Series(RDiv(x * x, Scale), x, 1, 1)

\* numpy.cos on [-pi, pi]
Cos(x) ==
    IF IsNaN(x) THEN NaN
    ELSE LET a == Abs(x)
         IN  IF a <= HalfPI THEN CosQ(a) ELSE -CosQ(PI - a)

\* numpy.sin on [-pi, pi]
Sin(x) ==
    IF IsNaN(x) THEN NaN
    ELSE LET a == Abs(x)
             s == IF a <= HalfPI THEN SinQ(a) ELSE SinQ(PI - a)
         IN  IF x < 0 THEN -s ELSE s

\* arctan(t) for 0 <= t <= 1: halve the angle once, then the Taylor series
RECURSIVE AtanSeries(_, _, _, _)
AtanSeries(t2, pow, k, sign) ==
    IF pow = 0 THEN 0
    ELSE sign * RDiv(pow, k) + AtanSeries(t2, RDiv(pow * t2, Scale), k + 2, -sign)

AtanUnit(t) ==
    LET h  == RDiv(t * Scale, Scale + ISqrt(Scale * Scale + t * t))
        h2 == RDiv(h * h, Scale)
    IN  2 * AtanSeries(h2, h, 1, 1)

\* arctan2 of a point of the first quadrant, y >= 0 and x >= 0
AtanQuadrant(y, x) ==
    IF y = 0 THEN 0
    ELSE IF x = 0 THEN HalfPI
    ELSE IF y <= x THEN AtanUnit(RDiv(y * Scale, x))
    ELSE HalfPI - AtanUnit(RDiv(x * Scale, y))

\* numpy.arctan2(y, x); arctan2(0, 0) is 0 and arctan2(0, x < 0) is pi
ArcTan2(y, x) ==
    IF IsNaN(y) \/ IsNaN(x) THEN NaN
    ELSE LET q == AtanQuadrant(Abs(y), Abs(x))
             a == IF x >= 0 THEN q ELSE PI - q
         IN  IF y < 0 THEN -a ELSE a

(***************************************************************************)
(* Cartesian triples                                                       *)
(***************************************************************************)
\* a - b, elementwise
Sub(a, b) == <<a[1] - b[1], a[2] - b[2], a[3] - b[3]>>

\* numpy.cross
Cross(a, b) ==
    << a[2] * b[3] - a[3] * b[2],
       a[3] * b[1] - a[1] * b[3],
       a[1] * b[2] - a[2] * b[1] >>

\* numpy.dot
Dot(a, b) == a[1] * b[1] + a[2] * b[2] + a[3] * b[3]

\* numpy.linalg.norm of an integer triple, a fixed-point number
Norm(v) == FSqrtInt(Dot(v, v))

(***************************************************************************)
(* GreatArcPropertiesCartesian.__init__                                    *)
(***************************************************************************)
\* self.v1 = self.start_cartesian - self.center_cartesian: a new array
V1(start_cartesian, center_cartesian) == Sub(start_cartesian, center_cartesian)

\* V3 without the factor self.r: a unit vector
V3_Unscaled(v1, v2, r) ==
    LET w == Cross(Cross(v1, v2), v1)
        n == Norm(w)
    IN  <<FDiv(w[1] * Scale, n), FDiv(w[2] * Scale, n), FDiv(w[3] * Scale, n)>>

\* V3 from the single cross product: the normal of the plane of the arc
V3_SingleCross(v1, v2, r) ==
    LET w == Cross(v1, v2)
        n == Norm(w)
    IN  <<FDiv(r * w[1], n), FDiv(r * w[2], n), FDiv(r * w[3], n)>>

\* V3 with the outer product the other way round, v1 x (v1 x v2): in the
\* plane and orthogonal to v1, on the side away from v2
V3_Reversed(v1, v2, r) ==
    LET w == Cross(v1, Cross(v1, v2))
        n == Norm(w)
    IN  <<FDiv(r * w[1], n), FDiv(r * w[2], n), FDiv(r * w[3], n)>>

\* self.v3 = np.cross(np.cross(self.v1, self.v2), self.v1)
\* self.v3 = self.r * self.v3 / np.linalg.norm(self.v3)
V3(v1, v2, r) ==
    LET w == Cross(Cross(v1, v2), v1)
        n == Norm(w)
    IN  <<FDiv(r * w[1], n), FDiv(r * w[2], n), FDiv(r * w[3], n)>>

\* np.arctan2(np.linalg.norm(np.cross(self.v1, self.v2)), np.dot(self.v1, self.v2))
InnerAngle(v1, v2) == ArcTan2(Norm(Cross(v1, v2)), Dot(v1, v2) * Scale)

\* Distance as the chord between the two points, 2 r sin(inner_angle / 2)
Distance_Chord(r, inner_angle) == 2 * FMul(r, Sin(inner_angle \div 2))

\* self.distance = self.r * self.inner_angle
Distance(r, inner_angle) == FMul(r, inner_angle)

\* The object the constructor leaves behind.  Nothing in it raises: a zero
\* norm makes v3 a triple of NaN (numpy warns and goes on).
GreatArcPropertiesCartesian(start_cartesian, end_cartesian, center_cartesian) ==
    LET v1 == V1(start_cartesian, center_cartesian)
        r  == Norm(v1)
        v2 == Sub(end_cartesian, center_cartesian)
        inner_angle == InnerAngle(v1, v2)
    IN  [ start_cartesian  |-> start_cartesian,
          end_cartesian    |-> end_cartesian,
          center_cartesian |-> center_cartesian,
          v1 |-> v1,
          r  |-> r,
          v2 |-> v2,
          v3 |-> V3(v1, v2, r),
          inner_angle |-> inner_angle,
          distance    |-> Distance(r, inner_angle) ]

\* ArgsAfterInit had the constructor subtracted in place (v1 = start; v1 -= center)
ArgsAfterInit_InPlace(start_cartesian, end_cartesian, center_cartesian) ==
    <<Sub(start_cartesian, center_cartesian), end_cartesian, center_cartesian>>

\* What the constructor does to the three arrays its caller passed.  It keeps
\* references to them and only reads them; start - center and end - center
\* are new arrays.
ArgsAfterInit(start_cartesian, end_cartesian, center_cartesian) ==
    <<start_cartesian, end_cartesian, center_cartesian>>

(***************************************************************************)
(* Outcomes of a call                                                      *)
(***************************************************************************)
None == <<>>

Return(v) == [exc |-> "none", value |-> v]

Raise(e) == [exc |-> e, value |-> None]

\* the geometry field of an outcome that holds no geometry
NoArc ==
    [ start_cartesian  |-> <<0, 0, 0>>,
      end_cartesian    |-> <<0, 0, 0>>,
      center_cartesian |-> <<0, 0, 0>>,
      v1 |-> <<0, 0, 0>>,
      r  |-> 0,
      v2 |-> <<0, 0, 0>>,
      v3 |-> <<0, 0, 0>>,
      inner_angle |-> 0,
      distance    |-> 0 ]

\* What the caller has after a call: the exception it raised ("none" when it
\* returned) and, by the kind of value it returns, the geometry, the sample
\* points, or the number and its unit.
Outcome(kind, r) ==
    LET ok == r.exc = "none"
    IN  [ exc    |-> r.exc,
          arc    |-> IF ok /\ kind = "arc" THEN r.value ELSE NoArc,
          points |-> IF ok /\ kind = "array" THEN r.value
                     ELSE IF ok /\ kind = "coordinates" THEN r.value.value
                     ELSE <<>>,
          value  |-> IF ok /\ kind = "quantity" THEN r.value.value ELSE 0,
          unit   |-> IF ok /\ kind \in {"quantity", "coordinates"} THEN r.value.unit
                     ELSE "" ]

(***************************************************************************)
(* calculate_great_arc                                                     *)
(***************************************************************************)
\* Linspace with endpoint=False: num steps of (stop - lo) / num, stop left out
Linspace_NoEndpoint(lo, stop, num) ==
    IF num < 0 THEN Raise("ValueError")
    ELSE IF num = 0 THEN Return(<<>>)
    ELSE LET step == RDiv(stop - lo, num)
         IN  Return([k \in 1..num |-> (k - 1) * step + lo])

\* np.linspace(lo, stop, num=num), endpoint included: arange(num) * step + lo
\* with step = (stop - lo) / (num - 1), the last element set to stop; a
\* single element is lo; no element for num = 0; ValueError below 0.
Linspace(lo, stop, num) ==
    IF num < 0 THEN Raise("ValueError")
    ELSE IF num = 0 THEN Return(<<>>)
    ELSE IF num = 1 THEN Return(<<lo>>)
    ELSE LET step == RDiv(stop - lo, num - 1)
         IN  Return([k \in 1..num |-> IF k = num THEN stop ELSE (k - 1) * step + lo])

\* an integer times a double
IMul(k, x) == IF IsNaN(x) THEN NaN ELSE k * x

\* PointAt with the cosine and the sine exchanged
PointAt_Swapped(this_great_arc, center_cartesian, angle) ==
    [i \in 1..3 |->
        FAdd(FAdd(IMul(this_great_arc.v1[i], Sin(angle)),
                  FMul(this_great_arc.v3[i], Cos(angle))),
             center_cartesian[i] * Scale)]

\* this_great_arc.v1 * cos(angle) + this_great_arc.v3 * sin(angle) + center_cartesian
PointAt(this_great_arc, center_cartesian, angle) ==
    [i \in 1..3 |->
        FAdd(FAdd(IMul(this_great_arc.v1[i], Cos(angle)),
                  FMul(this_great_arc.v3[i], Sin(angle))),
             center_cartesian[i] * Scale)]

\* The (num, 3) array of points, or the exception of np.linspace.  The
\* geometry is built first and never raises.
calculate_great_arc(start_cartesian, end_cartesian, center_cartesian, number_points) ==
    LET this_great_arc == GreatArcPropertiesCartesian(start_cartesian, end_cartesian,
                                                      center_cartesian)
        inner_angles   == Linspace(0, this_great_arc.inner_angle, number_points)
    IN  IF inner_angles.exc # "none" THEN inner_angles
        ELSE Return([k \in 1..number_points |->
                        PointAt(this_great_arc, center_cartesian, inner_angles.value[k])])

(***************************************************************************)
(* The public functions.  Their SkyCoord arguments are modelled in the     *)
(* heliocentric Cartesian frame, where transform_to('heliocentric') and    *)
(* the transformation back to the frame of start change no coordinate.     *)
(***************************************************************************)
\* start.transform_to('heliocentric').cartesian.xyz.unit
start_unit == "km"

\* The helper sets self.c only when center is None and reads self.c always,
\* so a call that passes a center ends in AttributeError.
HelperGreatArcConvertToCartesian(start_, end_, center_) ==
    IF center_ # None THEN Raise("AttributeError")
    ELSE Return([ start_unit       |-> start_unit,
                  start_cartesian  |-> start_,
                  end_cartesian    |-> end_,
                  center_cartesian |-> <<0, 0, 0>> ])

great_arc(start_, end_, center_, number_points) ==
    LET gc == HelperGreatArcConvertToCartesian(start_, end_, center_)
    IN  IF gc.exc # "none" THEN gc
        ELSE LET arc == calculate_great_arc(gc.value.start_cartesian, gc.value.end_cartesian,
                                            gc.value.center_cartesian, number_points)
             IN  IF arc.exc # "none" THEN arc
                 ELSE Return([value |-> arc.value, unit |-> gc.value.start_unit])

great_arc_distance(start_, end_, center_) ==
    LET gc == HelperGreatArcConvertToCartesian(start_, end_, center_)
    IN  IF gc.exc # "none" THEN gc
        ELSE LET this_great_arc == GreatArcPropertiesCartesian(gc.value.start_cartesian,
                                       gc.value.end_cartesian, gc.value.center_cartesian)
             IN  Return([value |-> this_great_arc.distance, unit |-> gc.value.start_unit])

\* np.rad2deg
Rad2Deg(x) == IF IsNaN(x) THEN NaN ELSE RDiv(x * 180 * Scale, PI)

great_arc_angular_separation(start_, end_, center_) ==
    LET gc == HelperGreatArcConvertToCartesian(start_, end_, center_)
    IN  IF gc.exc # "none" THEN gc
        ELSE LET this_great_arc == GreatArcPropertiesCartesian(gc.value.start_cartesian,
                                       gc.value.end_cartesian, gc.value.center_cartesian)
             IN  Return([value |-> Rad2Deg(this_great_arc.inner_angle), unit |-> "deg"])

(***************************************************************************)
(* Python values of the SWAP client: ints and strs                         *)
(***************************************************************************)
\* an int, and a str as the sequence of its characters
PyInt(n) == [type |-> "int", chars |-> <<>>, num |-> n]

PyString(cs) == [type |-> "str", chars |-> cs, num |-> 0]

\* a == b: ints by number, strs by characters, an int never equals a str
PyEq(a, b) ==
    IF a.type = "str" /\ b.type = "str" THEN a.chars = b.chars
    ELSE IF a.type = "int" /\ b.type = "int" THEN a.num = b.num
    ELSE FALSE

Uppercase ==
    << "A", "B", "C", "D", "E", "F", "G", "H", "I", "J", "K", "L", "M",
       "N", "O", "P", "Q", "R", "S", "T", "U", "V", "W", "X", "Y", "Z" >>

Lowercase ==
    << "a", "b", "c", "d", "e", "f", "g", "h", "i", "j", "k", "l", "m",
       "n", "o", "p", "q", "r", "s", "t", "u", "v", "w", "x", "y", "z" >>

\* str.lower() leaving every character as it is
Lower_Identity(cs) == cs

\* str.lower(): each upper-case letter replaced by its lower-case letter
Lower(cs) ==
    [i \in 1..Len(cs) |->
        IF \E k \in 1..Len(Uppercase) : Uppercase[k] = cs[i]
        THEN Lowercase[CHOOSE k \in 1..Len(Uppercase) : Uppercase[k] = cs[i]]
        ELSE cs[i]]

\* the characters of a str joined into one piece of text
RECURSIVE Join(_)
Join(cs) == IF cs = <<>> THEN "" ELSE cs[1] \o Join(Tail(cs))

Digit == <<"0", "1", "2", "3", "4", "5", "6", "7", "8", "9">>

\* a number written in at least width digits, zeros in front (%Y, %m, ...)
RECURSIVE Pad(_, _)
Pad(n, width) ==
    IF n < 10 /\ width <= 1 THEN Digit[n + 1]
    ELSE Pad(n \div 10, width - 1) \o Digit[(n % 10) + 1]

\* str(v), what '{level}'.format(level=v) writes
PyStr(v) == IF v.type = "str" THEN Join(v.chars) ELSE Pad(v.num, 1)

(***************************************************************************)
(* SWAPClient._can_handle_query                                            *)
(***************************************************************************)
\* the attributes of a query: the class name and the value
Attr(cls, value) == [cls |-> cls, value |-> value]

\* x.value in (0, 1, 'q', 'Q')
LevelValues == <<PyInt(0), PyInt(1), PyString(<<"q">>), PyString(<<"Q">>)>>

In(v, tuple) == \E k \in 1..Len(tuple) : PyEq(v, tuple[k])

\* chk_var after the loop over the first k attributes of the query
RECURSIVE chk_var(_, _)
chk_var(query, k) ==
    IF k = 0 THEN 0
    ELSE LET x == query[k]
         IN  chk_var(query, k - 1)
               + (IF x.cls = "Instrument" /\ x.value.type = "str"
                     /\ Lower(x.value.chars) = <<"s", "w", "a", "p">>
                  THEN 1 ELSE 0)
               + (IF x.cls = "Level" /\ In(x.value, LevelValues) THEN 1 ELSE 0)

\* return chk_var == 2
_can_handle_query(query) == chk_var(query, Len(query)) = 2

(***************************************************************************)
(* SWAPClient._get_url_for_timerange                                       *)
(***************************************************************************)
\* datetime.datetime(year, month, day): year, month, day, hour, minute, second
datetime(year, month, day) == <<year, month, day, 0, 0, 0>>

\* a < b on datetimes: the first field that differs decides
Earlier(a, b) ==
    \E i \in 1..6 : a[i] < b[i] /\ \A j \in 1..(i - 1) : a[j] = b[j]

\* level = kwargs.get('level', 1)
Level(kwargs) == IF "level" \in DOMAIN kwargs THEN kwargs["level"] ELSE PyInt(1)

\* SWAP_STARTDATE with the two first dates exchanged
SWAP_STARTDATE_Exchanged(level) ==
    IF PyEq(level, PyInt(1)) \/ PyEq(level, PyInt(0)) THEN datetime(2010, 1, 4)
    ELSE datetime(2009, 11, 24)

\* the first date of data of the level
SWAP_STARTDATE(level) ==
    IF PyEq(level, PyInt(1)) \/ PyEq(level, PyInt(0)) THEN datetime(2009, 11, 24)
    ELSE datetime(2010, 1, 4)

\* datatype = {0: 'eng', 1: 'bsd', 'q': 'qlk', 'Q': 'qlk'}: keys and values
datatype_keys == <<PyInt(0), PyInt(1), PyString(<<"q">>), PyString(<<"Q">>)>>

\* the dict with the data types of levels 0 and 1 exchanged
datatype_Exchanged(level) ==
    LET values == <<"bsd", "eng", "qlk", "qlk">>
    IN  values[CHOOSE k \in 1..Len(datatype_keys) : PyEq(level, datatype_keys[k])]

\* datatype[level], for a level that is a key
datatype(level) ==
    LET values == <<"eng", "bsd", "qlk", "qlk">>
    IN  values[CHOOSE k \in 1..Len(datatype_keys) : PyEq(level, datatype_keys[k])]

\* A pattern is a sequence of pieces: text, {name} fields of str.format and
\* % directives of strftime.
prefix ==
    <<"http://proba2.oma.be/swap/data/", "{datatype}", "/", "%Y", "/", "%m", "/", "%d", "/">>

suffix(level) ==
    IF PyEq(level, PyInt(0)) \/ PyEq(level, PyInt(1))
    THEN <<"{instrument}", "_lv", "{level}", "_", "%Y", "%m", "%d", "_", "%H", "%M", "%S", ".fits">>
    ELSE <<"%Y", "_", "%m", "_", "%d", "__", "%H", "_", "%M", "_", "%S",
           "__PROBA2_SWAP_SWAP_174.jp2">>

url_pattern(level) == prefix \o suffix(level)

\* pattern.format(**kwargs): every {name} piece replaced by kwargs[name]
Format(pattern, kw) ==
    [i \in 1..Len(pattern) |->
        IF pattern[i] = "{instrument}" THEN kw.instrument
        ELSE IF pattern[i] = "{level}" THEN kw.level
        ELSE IF pattern[i] = "{datatype}" THEN kw.datatype
        ELSE pattern[i]]

\* date.strftime(pattern): every % directive replaced by the field of the date
Strftime(pattern, date) ==
    [i \in 1..Len(pattern) |->
        IF pattern[i] = "%Y" THEN Pad(date[1], 4)
        ELSE IF pattern[i] = "%m" THEN Pad(date[2], 2)
        ELSE IF pattern[i] = "%d" THEN Pad(date[3], 2)
        ELSE IF pattern[i] = "%H" THEN Pad(date[4], 2)
        ELSE IF pattern[i] = "%M" THEN Pad(date[5], 2)
        ELSE IF pattern[i] = "%S" THEN Pad(date[6], 2)
        ELSE pattern[i]]

\* Scraper(pattern, **kwargs): the crawler keeps the formatted pattern
Scraper(pattern, kw) == [pattern |-> Format(pattern, kw)]

\* the files of the archive: the times at which an image was taken
Archive ==
    << <<2009, 11, 23, 23, 59, 1>>, <<2009, 11, 24, 0, 0, 44>>, <<2010, 1, 3, 12, 0, 0>>,
       <<2010, 1, 4, 0, 0, 44>>, <<2015, 12, 30, 0, 0, 44>>, <<2015, 12, 30, 0, 2, 34>> >>

\* crawler.filelist(timerange): the URLs of the files of the archive taken
\* from timerange.start to timerange.end, in the order of time
filelist(crawler, timerange) ==
    LET within(k) == /\ ~Earlier(Archive[k], timerange.start)
                     /\ ~Earlier(timerange.end, Archive[k])
        files == SelectSeq([k \in 1..Len(Archive) |-> k], within)
    IN  [k \in 1..Len(files) |-> Join(Strftime(crawler.pattern, Archive[files[k]]))]

\* What the caller of a SWAPClient method has after the call: the exception
\* raised ("none" when it returned), the answer of _can_handle_query, the
\* URLs of _get_url_for_timerange, the pattern of the Scraper when one was
\* created, and whether the Scraper was asked for a file list.
SwapOutcome(exc, answer, urls, scraper, asked) ==
    [ called |-> TRUE, exc |-> exc, answer |-> answer, urls |-> urls,
      created |-> scraper # <<>>,
      pattern |-> IF scraper # <<>> THEN Join(scraper[1].pattern) ELSE "",
      asked |-> asked ]

_get_url_for_timerange(timerange, kwargs) ==
    LET level == Level(kwargs)
    IN  IF Earlier(timerange.start, SWAP_STARTDATE(level))
        THEN SwapOutcome("ValueError", FALSE, <<>>, <<>>, FALSE)
        ELSE IF ~In(level, datatype_keys)
        THEN SwapOutcome("KeyError", FALSE, <<>>, <<>>, FALSE)
        ELSE LET crawler == Scraper(url_pattern(level),
                                    [ instrument |-> "swap",
                                      level      |-> PyStr(level),
                                      datatype   |-> datatype(level) ])
             IN  IF ~timerange.nonempty
                 THEN SwapOutcome("none", FALSE, <<>>, <<crawler>>, FALSE)
                 ELSE SwapOutcome("none", FALSE, filelist(crawler, timerange),
                                  <<crawler>>, TRUE)

\* what the caller has before it calls
NoSwapOutcome ==
    [ called |-> FALSE, exc |-> "none", answer |-> FALSE, urls |-> <<>>,
      created |-> FALSE, pattern |-> "", asked |-> FALSE ]

(***************************************************************************)
(* sunpy.physics.differential_rotation.diff_rot                            *)
(*                                                                         *)
(* Durations are whole seconds.  Sines and the rates in micro-radians per  *)
(* second are fixed-point numbers of Scale; days and degrees of rotation   *)
(* are fixed-point numbers of the finer scale Fine, in which 0.9856 is     *)
(* exact.                                                                  *)
(***************************************************************************)
Fine == 10 * Scale

\* duration.to(u.s).value, for a duration in seconds or in days
to_seconds(duration) ==
    IF duration.unit = "day" THEN duration.value * 24 * 3600 ELSE duration.value

\* delta_days = delta_seconds / 24.0 / 3600.0
delta_days(delta_seconds) ==
    RDiv(RDiv(delta_seconds * Scale, 24) * (Fine \div Scale), 3600)

\* sin2l = (np.sin(latitude))**2, the latitude in degrees
sin2l(latitude) ==
    LET s == Sin(RDiv(latitude.value * PI, 180))
    IN  FMul(s, s)

\* sin4l = sin2l**2
sin4l(latitude) == FMul(sin2l(latitude), sin2l(latitude))

\* rot_params[rot_type]: A, B, C
rot_params(rot_type) ==
    IF rot_type = "howard" THEN <<2894, -428, -370>> ELSE <<2851, -343, -474>>

\* rotation_rate = A + B * sin2l + C * sin4l, in micro-radians per second
rotation_rate(rot_type, latitude) ==
    LET ABC == rot_params(rot_type)
    IN  ABC[1] + FMul(ABC[2], sin2l(latitude)) + FMul(ABC[3], sin4l(latitude))

\* the rotation in degrees before the frame is looked at; rot_type is one
\* of the three.  rate * 1e-6 * delta_seconds is in radians, and dividing
\* by np.deg2rad(1) multiplies by 180 / pi = 57.296.
rotation_deg(delta_seconds, latitude, rot_type) ==
    IF rot_type = "allen"
    THEN RDiv(delta_days(delta_seconds) * (14440 - 3 * sin2l(latitude)), Scale)
    ELSE LET radians == RDiv(rotation_rate(rot_type, latitude) * delta_seconds,
                             100 * Scale)
         IN  RDiv(radians * 57296, Scale)

\* the frame test with 0.9856 degrees a day added
Synodic_Added(rotation, delta_seconds, frame_time) ==
    IF frame_time = "synodic"
    THEN rotation + RDiv(9856 * delta_days(delta_seconds), Fine)
    ELSE rotation

\* if frame_time == 'synodic': rotation_deg -= 0.9856 * delta_days
Synodic(rotation, delta_seconds, frame_time) ==
    IF frame_time = "synodic"
    THEN rotation - RDiv(9856 * delta_days(delta_seconds), Fine)
    ELSE rotation

\* What the caller of diff_rot has after the call: the exception raised
\* ("none" when it returned), the rotation and its unit.
RotOutcome(exc, value, unit) ==
    [called |-> TRUE, exc |-> exc, value |-> value, unit |-> unit]

\* what the caller has before it calls
NoRotOutcome == [called |-> FALSE, exc |-> "none", value |-> 0, unit |-> ""]

diff_rot(duration_, latitude_, rot_type_, frame_time_) ==
    LET delta_seconds == to_seconds(duration_)
    IN  IF rot_type_ \notin {"howard", "allen", "snodgrass"}
        THEN RotOutcome("ValueError", 0, "")
        ELSE RotOutcome("none",
                        Synodic(rotation_deg(delta_seconds, latitude_, rot_type_),
                                delta_seconds, frame_time_),
                        "deg")

(***************************************************************************)
(* Bounds of the model                                                     *)
(***************************************************************************)
\* number_points ranges over -1 .. MaxPoints
MaxPoints == 3

\* a caller makes at most MaxCalls calls on the arguments it holds
MaxCalls == 2

\* the coordinates of start and end
Coord == {-1, 0, 1}

Vec == {<<x, y, z>> : x \in Coord, y \in Coord, z \in Coord}

\* the centers a caller passes: the origin and a point off the origin
Centers == {<<0, 0, 0>>, <<1, 0, -1>>}

Points == -1..MaxPoints

\* a query holds at most MaxQuery attributes
MaxQuery == 3

\* the attributes a caller puts in a query
Attrs ==
    {Attr("Time", PyString(<<"2", "0", "1", "5", "/", "1", "2", "/", "3", "0">>))}
    \cup {Attr("Instrument", v) :
            v \in {PyString(<<"s", "w", "a", "p">>), PyString(<<"S", "W", "A", "P">>),
                   PyString(<<"e", "v", "e">>), PyInt(0)}}
    \cup {Attr("Level", v) :
            v \in {PyInt(0), PyInt(1), PyInt(2), PyString(<<"q">>), PyString(<<"Q">>), PyString(<<"1">>)}}

Queries == UNION {[1..n -> Attrs] : n \in 0..MaxQuery}

\* the time ranges a caller passes: start, end, and whether the range is
\* true (not empty) in a condition
TimeRanges ==
    {[start |-> s, end |-> e, nonempty |-> b] :
        s \in {datetime(2009, 11, 23), datetime(2009, 11, 24), datetime(2010, 1, 3),
               datetime(2010, 1, 4), datetime(2015, 12, 30)},
        e \in {datetime(2010, 1, 5), datetime(2015, 12, 31)},
        b \in BOOLEAN}

\* the durations a caller passes: seconds or days, none over MaxDays days
MaxDays == 2

Durations ==
    {[value |-> v, unit |-> "s"] : v \in {-3600, 0, 3600, 43200}}
    \cup {[value |-> v, unit |-> "day"] : v \in 1..MaxDays}

\* the latitudes in degrees
Latitudes == {[value |-> v, unit |-> "deg"] : v \in {-90, -45, -30, 0, 30, 60, 90}}

RotTypes == {"howard", "snodgrass", "allen", "Howard", "rigid"}

FrameTimes == {"sidereal", "synodic", "solar"}

\* the keyword arguments a caller passes: none, or a level
Kwargs ==
    {<<>>} \cup {[k \in {"level"} |-> v] :
                   v \in {PyInt(0), PyInt(1), PyInt(2), PyString(<<"q">>), PyString(<<"Q">>), PyString(<<"x">>)}}

(***************************************************************************)
(* The state: the arguments a caller holds and its latest call             *)
(***************************************************************************)
VARIABLES
    start,      \* the start point the caller holds
    end,        \* the end point
    center,     \* the center, None when the caller passes none
    call,       \* the latest call: its name, and number_points when it takes one
    result,     \* what the latest call returned or raised
    calls,      \* how many calls the caller has made
    method,     \* the SWAPClient method a caller calls
    query,      \* the query it passes to _can_handle_query
    timerange,  \* the time range it passes to _get_url_for_timerange
    kwargs,     \* the keyword arguments it passes with the time range
    swap_result,\* what the method returned or raised
    duration,   \* the duration a caller passes to diff_rot
    latitude,   \* the latitude
    rot_type,   \* the rot_type
    frame_time, \* the frame_time
    rotation    \* what diff_rot returned or raised

arc_vars == <<start, end, center, call, result, calls>>

swap_vars == <<method, query, timerange, kwargs, swap_result>>

rot_vars == <<duration, latitude, rot_type, frame_time, rotation>>

vars == <<arc_vars, swap_vars, rot_vars>>

\* no call of the great arc functions is made
ArcIdle ==
    /\ start = <<0, 0, 0>>
    /\ end = <<0, 0, 0>>
    /\ center = None
    /\ call = <<"none">>
    /\ result = Outcome("none", Return(None))
    /\ calls = 0

\* no method of the SWAP client is called
SwapIdle ==
    /\ method = "none"
    /\ query = <<>>
    /\ timerange = [start |-> datetime(2015, 12, 30), end |-> datetime(2015, 12, 31),
                    nonempty |-> TRUE]
    /\ kwargs = <<>>
    /\ swap_result = NoSwapOutcome

\* diff_rot is not called
RotIdle ==
    /\ duration = [value |-> 0, unit |-> "s"]
    /\ latitude = [value |-> 0, unit |-> "deg"]
    /\ rot_type = "howard"
    /\ frame_time = "sidereal"
    /\ rotation = NoRotOutcome

Init ==
    /\ start \in Vec
    /\ end \in Vec
    /\ center \in Centers \cup {None}
    /\ call = <<"none">>
    /\ result = Outcome("none", Return(None))
    /\ calls = 0
    /\ SwapIdle
    /\ RotIdle

\* this_great_arc = GreatArcPropertiesCartesian(start, end, center)
Construct ==
    /\ calls < MaxCalls
    /\ calls' = calls + 1
    /\ center # None
    /\ call' = <<"GreatArcPropertiesCartesian">>
    /\ result' = Outcome("arc", Return(GreatArcPropertiesCartesian(start, end, center)))
    /\ LET after == ArgsAfterInit(start, end, center)
       IN  start' = after[1] /\ end' = after[2] /\ center' = after[3]
    /\ UNCHANGED <<swap_vars, rot_vars>>

\* calculate_great_arc(start, end, center, number_points)
CalculateGreatArc ==
    \E number_points \in Points :
        /\ calls < MaxCalls
        /\ calls' = calls + 1
        /\ center # None
        /\ call' = <<"calculate_great_arc", number_points>>
        /\ result' = Outcome("array",
                              calculate_great_arc(start, end, center, number_points))
        /\ LET after == ArgsAfterInit(start, end, center)
           IN  start' = after[1] /\ end' = after[2] /\ center' = after[3]
        /\ UNCHANGED <<swap_vars, rot_vars>>

\* great_arc(start, end, center, number_points)
GreatArc ==
    \E number_points \in Points :
        /\ calls < MaxCalls
        /\ calls' = calls + 1
        /\ call' = <<"great_arc", number_points>>
        /\ result' = Outcome("coordinates",
                              great_arc(start, end, center, number_points))
        /\ UNCHANGED <<start, end, center, swap_vars, rot_vars>>

\* great_arc_distance(start, end, center)
GreatArcDistance ==
    /\ calls < MaxCalls
    /\ calls' = calls + 1
    /\ call' = <<"great_arc_distance">>
    /\ result' = Outcome("quantity", great_arc_distance(start, end, center))
    /\ UNCHANGED <<start, end, center, swap_vars, rot_vars>>

\* great_arc_angular_separation(start, end, center)
GreatArcAngularSeparation ==
    /\ calls < MaxCalls
    /\ calls' = calls + 1
    /\ call' = <<"great_arc_angular_separation">>
    /\ result' = Outcome("quantity", great_arc_angular_separation(start, end, center))
    /\ UNCHANGED <<start, end, center, swap_vars, rot_vars>>

Next ==
    \/ Construct
    \/ CalculateGreatArc
    \/ GreatArc
    \/ GreatArcDistance
    \/ GreatArcAngularSeparation

Spec == Init /\ [][Next]_vars

(***************************************************************************)
(* The SWAP client: a caller calls one method on the arguments it holds    *)
(***************************************************************************)
SwapInit ==
    /\ ArcIdle
    /\ RotIdle
    /\ swap_result = NoSwapOutcome
    /\ \/ /\ method = "_can_handle_query"
          /\ query \in Queries
          /\ timerange = [start |-> datetime(2015, 12, 30),
                          end |-> datetime(2015, 12, 31), nonempty |-> TRUE]
          /\ kwargs = <<>>
       \/ /\ method = "_get_url_for_timerange"
          /\ query = <<>>
          /\ timerange \in TimeRanges
          /\ kwargs \in Kwargs

\* SWAPClient._can_handle_query(*query)
CanHandleQuery ==
    /\ method = "_can_handle_query"
    /\ ~swap_result.called
    /\ swap_result' = SwapOutcome("none", _can_handle_query(query), <<>>, <<>>, FALSE)
    /\ UNCHANGED <<method, query, timerange, kwargs, arc_vars, rot_vars>>

\* SWAPClient()._get_url_for_timerange(timerange, **kwargs)
GetUrlForTimerange ==
    /\ method = "_get_url_for_timerange"
    /\ ~swap_result.called
    /\ swap_result' = _get_url_for_timerange(timerange, kwargs)
    /\ UNCHANGED <<method, query, timerange, kwargs, arc_vars, rot_vars>>

SwapNext ==
    \/ CanHandleQuery
    \/ GetUrlForTimerange

SwapSpec == SwapInit /\ [][SwapNext]_vars

(***************************************************************************)
(* diff_rot: a caller calls it once on the arguments it holds              *)
(***************************************************************************)
RotInit ==
    /\ ArcIdle
    /\ SwapIdle
    /\ duration \in Durations
    /\ latitude \in Latitudes
    /\ rot_type \in RotTypes
    /\ frame_time \in FrameTimes
    /\ rotation = NoRotOutcome

\* diff_rot(duration, latitude, rot_type, frame_time)
DiffRot ==
    /\ ~rotation.called
    /\ rotation' = diff_rot(duration, latitude, rot_type, frame_time)
    /\ UNCHANGED <<duration, latitude, rot_type, frame_time, arc_vars, swap_vars>>

RotNext == DiffRot

RotSpec == RotInit /\ [][RotNext]_vars

(***************************************************************************)
(* Vocabulary of the properties                                            *)
(***************************************************************************)
\* two doubles agree within a hundredth; NaN agrees with nothing
Tol == Scale \div 100

Close(a, b) == ~IsNaN(a) /\ ~IsNaN(b) /\ Abs(a - b) <= Tol

ClosePoint(p, q) == \A i \in 1..3 : Close(p[i], q[i])

CloseSeq(ps, qs) == Len(ps) = Len(qs) /\ \A k \in 1..Len(ps) : ClosePoint(ps[k], qs[k])

\* the length of a triple of fixed-point numbers
FNorm(p) ==
    IF IsNaN(p[1]) \/ IsNaN(p[2]) \/ IsNaN(p[3]) THEN NaN
    ELSE ISqrt(p[1] * p[1] + p[2] * p[2] + p[3] * p[3])

\* an integer triple as a triple of fixed-point numbers
ToFixed(v) == <<v[1] * Scale, v[2] * Scale, v[3] * Scale>>

\* degrees to radians, what a caller does to an angle returned in degrees
Deg2Rad(x) == IF IsNaN(x) THEN NaN ELSE RDiv(x * PI, 180 * Scale)

Reverse(ps) == [k \in 1..Len(ps) |-> ps[Len(ps) + 1 - k]]

\* v1 and v2 collinear: parallel, antiparallel, or one of them zero
Degenerate(s, e, c) == Cross(Sub(s, c), Sub(e, c)) = <<0, 0, 0>>

\* start and end at the same distance from the center
EqualRadius(s, e, c) == Dot(Sub(s, c), Sub(s, c)) = Dot(Sub(e, c), Sub(e, c))

CoreCalls == {"GreatArcPropertiesCartesian", "calculate_great_arc"}

PublicCalls == {"great_arc", "great_arc_distance", "great_arc_angular_separation"}

SamplingCalls == {"calculate_great_arc", "great_arc"}

\* the center the latest call computes about: the one passed, the origin
\* when a public function is passed none
TheCenter == IF center = None THEN <<0, 0, 0>> ELSE center

\* the latest call got as far as the Cartesian geometry
Computes == call[1] \in CoreCalls \/ (call[1] \in PublicCalls /\ center = None)

\* the geometry the latest call is about
TheArc == GreatArcPropertiesCartesian(start, end, TheCenter)

\* the sample sequence a sampling call returned
Samples == result.points

Sampled == Computes /\ call[1] \in SamplingCalls /\ result.exc = "none"

(***************************************************************************)
(* C1: a degenerate request (v1 and v2 collinear, or start or end at the   *)
(* center) ends in DegenerateArcError, whatever the operation.             *)
(* The code raises nothing: it returns a geometry whose v3 is NaN.         *)
(***************************************************************************)
C1_DegenerateArcError ==
    (/\ Computes
     /\ call[1] \in SamplingCalls => call[2] >= 1
     /\ Degenerate(start, end, TheCenter))
        => result.exc = "DegenerateArcError"

(***************************************************************************)
(* C2: sampling with number_points < 1 fails with an invalid-argument      *)
(* error (ValueError is Python's) and returns no sequence.                 *)
(* The code returns the empty sequence for number_points = 0.              *)
(***************************************************************************)
C2_InvalidArgumentError ==
    (/\ Computes /\ call[1] \in SamplingCalls /\ call[2] < 1
     /\ ~Degenerate(start, end, TheCenter))
        => result.exc \in {"InvalidArgumentError", "ValueError"}

(***************************************************************************)
(* C3: for a non-degenerate arc with start and end at the same distance    *)
(* from the center and number_points >= 2, the first sample is start and   *)
(* the last is end, within tolerance.                                      *)
(***************************************************************************)
C3_Case ==
    /\ Computes /\ call[1] \in SamplingCalls /\ call[2] >= 2
    /\ ~Degenerate(start, end, TheCenter)
    /\ EqualRadius(start, end, TheCenter)

C3_Endpoints ==
    C3_Case =>
        /\ result.exc = "none"
        /\ ClosePoint(Samples[1], ToFixed(start))
        /\ ClosePoint(Samples[call[2]], ToFixed(end))

C3_Witness ==
    /\ C3_Case
    /\ center = <<1, 0, -1>>
    /\ call = <<"calculate_great_arc", MaxPoints>>
    /\ Dot(Sub(start, center), Sub(end, center)) < 0

(***************************************************************************)
(* C4: for a valid geometry and number_points >= 1 the sample sequence has *)
(* number_points elements, the points at number_points angles evenly       *)
(* spaced over [0, inner_angle], ends included, in increasing order; for   *)
(* number_points = 1 it is the start point alone.                          *)
(***************************************************************************)
C4_Case ==
    /\ Computes /\ call[1] \in SamplingCalls /\ call[2] >= 1
    /\ ~Degenerate(start, end, TheCenter)

C4_EvenlySpaced ==
    C4_Case =>
        LET n      == call[2]
            angles == Linspace(0, TheArc.inner_angle, n).value
        IN  /\ result.exc = "none"
            /\ Len(Samples) = n
            /\ Len(angles) = n
            /\ angles[1] = 0
            /\ n >= 2 => angles[n] = TheArc.inner_angle
            /\ \A k \in 1..(n - 1) : angles[k] < angles[k + 1]
            /\ \A k \in 2..(n - 1) :
                  Abs((angles[k + 1] - angles[k]) - (angles[k] - angles[k - 1])) <= n
            /\ \A k \in 1..n : Samples[k] = PointAt(TheArc, TheCenter, angles[k])
            /\ n = 1 => /\ Samples = <<ToFixed(start)>>
                        /\ Samples # <<ToFixed(end)>>

C4_Witness ==
    /\ C4_Case
    /\ call = <<"calculate_great_arc", 1>>
    /\ result.points = <<ToFixed(start)>>
    /\ center # <<0, 0, 0>>

(***************************************************************************)
(* C5: the distance the distance query returns is r times the angle the    *)
(* angular-separation query returns on the same inputs, r = |start -       *)
(* center|; it is never negative.                                          *)
(* As stated (C5_DistanceIsRadiusTimesSeparation) it fails: the separation *)
(* comes back in degrees.  With the separation converted to radians it     *)
(* holds (C5_DistanceIsRadiusTimesRadians).                                *)
(***************************************************************************)
C5_Case ==
    /\ Computes
    /\ call[1] \in {"great_arc_distance", "great_arc_angular_separation"}
    /\ ~Degenerate(start, end, TheCenter)

\* the values the two queries return on the arguments of the state
C5_distance == great_arc_distance(start, end, center).value.value

C5_separation == great_arc_angular_separation(start, end, center).value.value

Antipodal(s, e, c) == Degenerate(s, e, c) /\ Dot(Sub(s, c), Sub(e, c)) < 0

C6_SeparationRange ==
    (Computes /\ call[1] = "great_arc_angular_separation") =>
        /\ Antipodal(start, end, TheCenter) => result.exc = "DegenerateArcError"
        /\ ~Degenerate(start, end, TheCenter) =>
              /\ result.exc = "none"
              /\ 0 <= result.value
              /\ result.value <= Rad2Deg(PI)
              /\ result.value = 0 <=> start = end
              /\ result.value = Rad2Deg(PI) <=> Antipodal(start, end, TheCenter)

(***************************************************************************)
(* C7: every point of every sample sequence lies at distance               *)
(* r = |start - center| from the center, for number_points >= 1, also when *)
(* end is at another distance from the center than start.                  *)
(***************************************************************************)
C7_Case ==
    /\ Computes /\ call[1] \in SamplingCalls /\ call[2] >= 1
    /\ ~Degenerate(start, end, TheCenter)

C7_OnSphere ==
    C7_Case =>
        /\ result.exc = "none"
        /\ \A k \in 1..call[2] :
              /\ \A i \in 1..3 : ~IsNaN(Samples[k][i])
              /\ Close(FNorm([i \in 1..3 |-> Samples[k][i] - TheCenter[i] * Scale]),
                       TheArc.r)

C7_Witness ==
    /\ C7_Case
    /\ ~EqualRadius(start, end, TheCenter)
    /\ center = <<1, 0, -1>>
    /\ call = <<"calculate_great_arc", MaxPoints>>
    /\ TheArc.r > Scale

(***************************************************************************)
(* C8: the sample sequence from start to end, reversed, is the sample      *)
(* sequence from end to start about the same center with the same n.       *)
(* As stated, for every valid input and every n (C8_Symmetry), it fails    *)
(* for n = 1 and for an end at another distance from the center than       *)
(* start.  It holds for start and end at the same distance and n # 1       *)
(* (C8_SymmetryEqualRadius).                                               *)
(***************************************************************************)
C8_Case == Sampled /\ ~Degenerate(start, end, TheCenter)

C8_Symmetry ==
    C8_Case =>
        CloseSeq(Reverse(Samples),
                 calculate_great_arc(end, start, TheCenter, call[2]).value)

C8_SymmetryEqualRadius ==
    (C8_Case /\ EqualRadius(start, end, TheCenter) /\ call[2] # 1) =>
        CloseSeq(Reverse(Samples),
                 calculate_great_arc(end, start, TheCenter, call[2]).value)

C8_Witness ==
    /\ C8_Case
    /\ EqualRadius(start, end, TheCenter)
    /\ call = <<"calculate_great_arc", MaxPoints>>
    /\ center = <<1, 0, -1>>
    /\ start # end

(***************************************************************************)
(* C9: the center argument of the public functions is optional and         *)
(* honoured: without one the origin is the center, with one the result is  *)
(* computed about it, and the call completes with a result.                *)
(* The code ends in AttributeError whenever a center is passed.            *)
(***************************************************************************)
C9_CenterHonoured ==
    (call[1] \in PublicCalls /\ (call[1] = "great_arc" => call[2] >= 1)) =>
        /\ result.exc = "none"
        /\ call[1] = "great_arc"
              => result.points
                    = calculate_great_arc(start, end, TheCenter, call[2]).value
        /\ call[1] = "great_arc_distance"
              => result.value = TheArc.distance
        /\ call[1] = "great_arc_angular_separation"
              => result.value = Rad2Deg(TheArc.inner_angle)

OfClass(cls) == SelectSeq(query, LAMBDA x : x.cls = cls)

\* an Instrument attribute whose value is the str 'swap' in any mix of case
IsSwapInstrument(x) ==
    /\ x.cls = "Instrument"
    /\ x.value.type = "str"
    /\ Len(x.value.chars) = 4
    /\ x.value.chars[1] \in {"s", "S"}
    /\ x.value.chars[2] \in {"w", "W"}
    /\ x.value.chars[3] \in {"a", "A"}
    /\ x.value.chars[4] \in {"p", "P"}

\* a Level attribute whose value is 0, 1, 'q' or 'Q'
IsSwapLevel(x) ==
    /\ x.cls = "Level"
    /\ \/ x.value.type = "int" /\ x.value.num \in {0, 1}
       \/ x.value.type = "str" /\ x.value.chars \in {<<"q">>, <<"Q">>}

HasSwapInstrument == \E k \in 1..Len(query) : IsSwapInstrument(query[k])

HasSwapLevel == \E k \in 1..Len(query) : IsSwapLevel(query[k])

\* _can_handle_query has answered the query
Answered == method = "_can_handle_query" /\ swap_result.called

(***************************************************************************)
(* C11: for a query with at most one Instrument attribute and at most one  *)
(* Level attribute, _can_handle_query returns True when the Instrument     *)
(* attribute is 'swap' in any mix of case and the Level attribute is 0, 1, *)
(* 'q' or 'Q'; it returns False when the Level attribute is missing, when  *)
(* the Instrument attribute is missing, and when the Instrument attribute  *)
(* is another instrument; the answer is the answer to the query with its   *)
(* Time attributes left out.                                               *)
(***************************************************************************)
C11_Case ==
    /\ Answered
    /\ Len(OfClass("Instrument")) <= 1
    /\ Len(OfClass("Level")) <= 1

UrlsAsked == method = "_get_url_for_timerange" /\ swap_result.called

\* the level passed is the int n, or the str of the one character c
LevelIsInt(n) ==
    "level" \in DOMAIN kwargs /\ kwargs["level"].type = "int" /\ kwargs["level"].num = n

LevelIsChar(c) ==
    "level" \in DOMAIN kwargs /\ kwargs["level"].type = "str" /\ kwargs["level"].chars = <<c>>

LevelMissing == "level" \notin DOMAIN kwargs

\* the time range starts before the day year-month-day
StartsBefore(year, month, day) ==
    \/ timerange.start[1] < year
    \/ timerange.start[1] = year /\ timerange.start[2] < month
    \/ timerange.start[1] = year /\ timerange.start[2] = month /\ timerange.start[3] < day

\* the URL of the file taken at time t, data type dt, file name of level lv
FitsUrl(dt, lv, t) ==
    "http://proba2.oma.be/swap/data/" \o dt \o "/"
        \o Pad(t[1], 4) \o "/" \o Pad(t[2], 2) \o "/" \o Pad(t[3], 2) \o "/"
        \o "swap_lv" \o lv \o "_" \o Pad(t[1], 4) \o Pad(t[2], 2) \o Pad(t[3], 2)
        \o "_" \o Pad(t[4], 2) \o Pad(t[5], 2) \o Pad(t[6], 2) \o ".fits"

Jp2Url(t) ==
    "http://proba2.oma.be/swap/data/qlk/"
        \o Pad(t[1], 4) \o "/" \o Pad(t[2], 2) \o "/" \o Pad(t[3], 2) \o "/"
        \o Pad(t[1], 4) \o "_" \o Pad(t[2], 2) \o "_" \o Pad(t[3], 2)
        \o "__" \o Pad(t[4], 2) \o "_" \o Pad(t[5], 2) \o "_" \o Pad(t[6], 2)
        \o "__PROBA2_SWAP_SWAP_174.jp2"

\* every URL returned is the URL of a file of the archive
UrlsAre(Url(_)) ==
    \A k \in 1..Len(swap_result.urls) :
        \E f \in 1..Len(Archive) : swap_result.urls[k] = Url(Archive[f])

C12_Case ==
    /\ UrlsAsked
    /\ \/ (LevelIsInt(0) \/ LevelIsInt(1) \/ LevelMissing) /\ ~StartsBefore(2009, 11, 24)
       \/ (LevelIsChar("q") \/ LevelIsChar("Q")) /\ ~StartsBefore(2010, 1, 4)

C12_UrlPattern ==
    C12_Case =>
        /\ swap_result.exc = "none"
        /\ LevelIsInt(0) =>
              /\ swap_result.pattern
                    = "http://proba2.oma.be/swap/data/eng/%Y/%m/%d/swap_lv0_%Y%m%d_%H%M%S.fits"
              /\ UrlsAre(LAMBDA t : FitsUrl("eng", "0", t))
        /\ (LevelIsInt(1) \/ LevelMissing) =>
              /\ swap_result.pattern
                    = "http://proba2.oma.be/swap/data/bsd/%Y/%m/%d/swap_lv1_%Y%m%d_%H%M%S.fits"
              /\ UrlsAre(LAMBDA t : FitsUrl("bsd", "1", t))
        /\ (LevelIsChar("q") \/ LevelIsChar("Q")) =>
              /\ swap_result.pattern
                    = "http://proba2.oma.be/swap/data/qlk/%Y/%m/%d/%Y_%m_%d__%H_%M_%S__PROBA2_SWAP_SWAP_174.jp2"
              /\ UrlsAre(Jp2Url)

C12_Witness ==
    /\ C12_Case
    /\ LevelMissing
    /\ timerange.start = datetime(2015, 12, 30)
    /\ swap_result.urls
         = << "http://proba2.oma.be/swap/data/bsd/2015/12/30/swap_lv1_20151230_000044.fits",
              "http://proba2.oma.be/swap/data/bsd/2015/12/30/swap_lv1_20151230_000234.fits" >>

(***************************************************************************)
(* C13: in every geometry computed from non-collinear v1 and v2, v3 is     *)
(* orthogonal to v1, lies in the plane of v1 and v2 (it is orthogonal to   *)
(* v1 x v2), has the length r of v1, and points to the side of v2          *)
(* (v3 . v2 >= 0).                                                         *)
(***************************************************************************)
\* the geometry object the constructor left with the caller
Geometry == result.arc

\* an integer triple dotted with a triple of doubles
MixedDot(v, p) ==
    IF IsNaN(p[1]) \/ IsNaN(p[2]) \/ IsNaN(p[3]) THEN NaN
    ELSE v[1] * p[1] + v[2] * p[2] + v[3] * p[3]

C13_Case ==
    /\ call[1] = "GreatArcPropertiesCartesian"
    /\ ~Degenerate(start, end, center)

C13_V3Basis ==
    C13_Case =>
        /\ Close(MixedDot(Geometry.v1, Geometry.v3), 0)
        /\ Close(MixedDot(Cross(Geometry.v1, Geometry.v2), Geometry.v3), 0)
        /\ Close(FNorm(Geometry.v3), Geometry.r)
        /\ Close(Geometry.r, Norm(Geometry.v1))
        /\ ~IsNaN(MixedDot(Geometry.v2, Geometry.v3))
        /\ MixedDot(Geometry.v2, Geometry.v3) >= 0

C13_Witness ==
    /\ C13_Case
    /\ center = <<1, 0, -1>>
    /\ ~EqualRadius(start, end, center)
    /\ Dot(Geometry.v1, Geometry.v2) < 0
    /\ MixedDot(Geometry.v2, Geometry.v3) > 0

(***************************************************************************)
(* C14: _get_url_for_timerange raises ValueError whenever timerange.start  *)
(* is earlier than the first date of data of the level, 2009-11-24 for     *)
(* level 0 or 1 and 2010-01-04 for any other level, and then no scraper    *)
(* was created or asked for a file list; for a start on or after that      *)
(* date it raises no ValueError, and an empty (false) time range then      *)
(* gives the empty list without the scraper being asked for files.         *)
(* As stated, for every level (C14_FirstDate), the last part fails for a   *)
(* level that is not 0, 1, 'q' or 'Q': the call raises KeyError.  It holds *)
(* for the levels 0, 1, 'q', 'Q' and no level passed                       *)
(* (C14_FirstDateOfAcceptedLevel).                                         *)
(***************************************************************************)
\* the call is for level 0 or 1: passed, or by default
LevelZeroOrOne == LevelIsInt(0) \/ LevelIsInt(1) \/ LevelMissing

LevelAccepted == LevelZeroOrOne \/ LevelIsChar("q") \/ LevelIsChar("Q")

\* the time range starts before the first date of data of the level
TooEarly ==
    IF LevelZeroOrOne THEN StartsBefore(2009, 11, 24) ELSE StartsBefore(2010, 1, 4)

\* ValueError, raised before a scraper exists, exactly for an early start
C14_ValueError ==
    /\ TooEarly =>
          /\ swap_result.exc = "ValueError"
          /\ ~swap_result.created
          /\ ~swap_result.asked
          /\ swap_result.urls = <<>>
    /\ ~TooEarly => swap_result.exc # "ValueError"

\* the empty list for an empty time range, the scraper not asked
C14_EmptyList ==
    /\ swap_result.exc = "none"
    /\ swap_result.urls = <<>>
    /\ ~swap_result.asked

C14_FirstDate ==
    UrlsAsked =>
        /\ C14_ValueError
        /\ (~TooEarly /\ ~timerange.nonempty) => C14_EmptyList

C14_FirstDateOfAcceptedLevel ==
    UrlsAsked =>
        /\ C14_ValueError
        /\ (~TooEarly /\ ~timerange.nonempty /\ LevelAccepted) => C14_EmptyList
        /\ (~TooEarly /\ ~LevelAccepted) =>
              swap_result.exc = "KeyError" /\ ~swap_result.created

C14_Witness ==
    /\ UrlsAsked
    /\ LevelIsChar("q")
    /\ timerange.start = datetime(2010, 1, 4)
    /\ ~timerange.nonempty
    /\ swap_result.created
    /\ C14_EmptyList

(***************************************************************************)
(* C15: diff_rot raises ValueError for every rot_type other than howard,   *)
(* snodgrass and allen, whatever the frame_time, and returns no rotation   *)
(* then; for each of the three it returns a rotation in degrees, and with  *)
(* frame_time synodic that rotation is the sidereal rotation for the same  *)
(* duration, latitude and rot_type less 0.9856 degrees per day of          *)
(* duration.                                                               *)
(***************************************************************************)
\* 0.9856 degrees per day of the duration, in 1/Fine of a degree
SynodicShift ==
    IF duration.unit = "day" THEN 9856 * duration.value
    ELSE RDiv(9856 * duration.value, 86400)

C15_RotType ==
    rotation.called =>
        /\ rot_type \notin {"howard", "snodgrass", "allen"} =>
              /\ rotation.exc = "ValueError"
              /\ rotation.unit = ""
        /\ rot_type \in {"howard", "snodgrass", "allen"} =>
              /\ rotation.exc = "none"
              /\ rotation.unit = "deg"
              /\ frame_time = "synodic" =>
                    Abs(rotation.value
                          - (diff_rot(duration, latitude, rot_type, "sidereal").value
                               - SynodicShift)) <= 1

C15_Witness ==
    /\ rotation.called
    /\ rot_type = "snodgrass"
    /\ frame_time = "synodic"
    /\ duration = [value |-> MaxDays, unit |-> "day"]
    /\ latitude.value = 30
    /\ rotation.exc = "none"
    /\ rotation.value > 0

(***************************************************************************)
(* C16: _can_handle_query returns True only for a query that holds at      *)
(* least one Instrument attribute equal to 'swap' and at least one Level   *)
(* attribute with a value in (0, 1, 'q', 'Q'), however many attributes of  *)
(* either class the query holds.                                           *)
(***************************************************************************)
C16_BothRequired ==
    (Answered /\ swap_result.answer) => (HasSwapInstrument /\ HasSwapLevel)

====
